---- MODULE Spec2Model ----
(***************************************************************************)
(* Model of header-translator's Library (crates/header-translator/src/     *)
(* library.rs): the name-sorted map of Files, the aggregator rendering     *)
(* (impl Display for Library) and Library::output, which writes one unit   *)
(* per File and then the aggregator `mod.rs`.                              *)
(*                                                                         *)
(* Text is modelled structurally.  A name (String) is a sequence of        *)
(* one-character strings; a rendered unit is a sequence of chunks, one     *)
(* chunk per write!/writeln! call, `nl` telling whether the call ended the *)
(* line (writeln!) or not (write!).                                        *)
(***************************************************************************)
EXTENDS Integers, Sequences, FiniteSets, TLC

\* ------------------------------------------------------------------ bounds

\* Largest number of Files the front end puts into one Library.
MaxFiles == 2

\* Largest number of Statements the front end puts into one Library.
MaxStmts == 2

\* ------------------------------------------------------------ input pools

\* Header-derived file identities: non-empty, no path separator, neither
\* "." nor "..".  "a+b" and "a_b" differ only in the character the sanitizer
\* replaces, "a.b" carries a dot (an extension to Path::set_extension), and
\* "mod" is the aggregator's own stem.
FileNamePool ==
    { <<"a", "+", "b">>, <<"a", "_", "b">>, <<"a", ".", "b">>, <<"m", "o", "d">> }

\* Capability (cargo feature) sets a Statement may require.
FeaturePool == { {}, {"x", "y"} }

\* Package configurations: framework name and linkage style.
ConfigPool ==
    { [link_name |-> "Foo", cfg_apple_link |-> TRUE],
      [link_name |-> "Bar", cfg_apple_link |-> FALSE] }

\* Failures the storage layer can report for one fs::write.
IoErrorPool == { "PermissionDenied", "StorageFull" }

None == [some |-> FALSE]
Some(v) == [some |-> TRUE, val |-> v]

\* ---------------------------------------------------------------- strings

\* Byte value of the characters used, for String's Ord (byte-wise).
Code(c) ==
    CASE c = "+" -> 43
      [] c = "." -> 46
      [] c = "F" -> 70
      [] c = "_" -> 95
      [] c = "a" -> 97
      [] c = "b" -> 98
      [] c = "d" -> 100
      [] c = "m" -> 109
      [] c = "o" -> 111
      [] c = "r" -> 114
      [] c = "s" -> 115

\* <String as Ord>::lt: lexicographic over bytes, a proper prefix first.
StrLess(a, b) ==
    \E i \in 1..(Len(b)) :
        /\ \A j \in 1..(i - 1) : j <= Len(a) /\ a[j] = b[j]
        /\ \/ i = Len(a) + 1
           \/ i <= Len(a) /\ Code(a[i]) < Code(b[i])

\* A sanitizer that leaves the name as it is.
CleanFileNameKeep(name) == name

\* clean_file_name: name.replace('+', "_").
CleanFileName(name) ==
    [i \in 1..Len(name) |-> IF name[i] = "+" THEN "_" ELSE name[i]]

\* str::starts_with(char).
StartsWith(name, c) == Len(name) > 0 /\ name[1] = c

\* ------------------------------------------------------------------ paths

\* Index of the last '.' of a file name, 0 when there is none.
LastDot(fname) ==
    LET dots == { i \in 1..Len(fname) : fname[i] = "." }
    IN  IF dots = {} THEN 0 ELSE CHOOSE i \in dots : \A j \in dots : j <= i

\* Path::file_stem of a path whose last component is fname: the part before
\* the last '.', or all of it when there is no '.' or only a leading one.
FileStem(fname) ==
    IF fname = <<".", ".">> \/ LastDot(fname) <= 1
    THEN fname
    ELSE SubSeq(fname, 1, LastDot(fname) - 1)

\* PathBuf::set_extension: truncate to the file stem, then add "." and ext.
SetExtension(fname, ext) == FileStem(fname) \o <<".">> \o ext

Rs == <<"r", "s">>

\* The target of a File's unit, relative to the output directory:
\* path.join(clean_file_name(name)) with its extension set to "rs".
UnitPath(name) == SetExtension(CleanFileName(name), Rs)

\* The target of the aggregator: path.join("mod.rs").
ModRsPath == <<"m", "o", "d", ".", "r", "s">>

AllPaths == { UnitPath(n) : n \in FileNamePool } \cup { ModRsPath }

\* ------------------------------------------------------------- data model

\* Stmt::required_features: the capability set stored with the Statement.
RequiredFeatures(stmt) == stmt.features

\* Stmt::provided_item: the exported item (name, file_name), if any.
ProvidedItem(stmt) == stmt.item

\* Some file identity other than k, for a defective front end's Statements.
OtherFile(k) == IF k = <<"m", "o", "d">> THEN <<"a", "_", "b">> ELSE <<"m", "o", "d">>

\* The well-formed Statements the front end may produce for the File named
\* k: without an exported item, or with an item owned by k.
ValidStmtPool(k) ==
    { [features |-> {"x", "y"}, item |-> None] }
    \cup { [features |-> f, item |-> Some([name |-> <<"F">>, file_name |-> Some(k)])] :
             f \in FeaturePool }
    \cup { [features |-> {"x", "y"},
            item |-> Some([name |-> <<"_", "F">>, file_name |-> Some(k)])],
           [features |-> {},
            item |-> Some([name |-> <<"F", "_">>, file_name |-> Some(k)])] }

\* All Statements a front end may produce for k, those of a defective one
\* included: their item names no file, or another file.
StmtPool(k) ==
    ValidStmtPool(k)
    \cup { [features |-> {}, item |-> Some([name |-> <<"F">>, file_name |-> None])],
           [features |-> {"x", "y"},
            item |-> Some([name |-> <<"F">>, file_name |-> Some(OtherFile(k))])] }

\* Library.files, a BTreeMap<String, File>, as the sequence of its entries
\* in iteration order (ascending key).
Keys(fs) == { fs[i].name : i \in 1..Len(fs) }

\* An insertion that keeps arrival order instead of key order (a Vec of
\* pairs, an insertion-ordered map).
BTreeInsertAtEnd(fs, k, v) ==
    IF k \in Keys(fs)
    THEN [i \in 1..Len(fs) |-> IF fs[i].name = k THEN [name |-> k, file |-> v] ELSE fs[i]]
    ELSE Append(fs, [name |-> k, file |-> v])

\* BTreeMap::insert: replace the value of an existing key, else place the
\* entry at its position in key order.
BTreeInsert(fs, k, v) ==
    IF k \in Keys(fs)
    THEN [i \in 1..Len(fs) |-> IF fs[i].name = k THEN [name |-> k, file |-> v] ELSE fs[i]]
    ELSE LET below == Cardinality({ i \in 1..Len(fs) : StrLess(fs[i].name, k) })
         IN  SubSeq(fs, 1, below) \o <<[name |-> k, file |-> v]>>
                 \o SubSeq(fs, below + 1, Len(fs))

RECURSIVE CountStmts(_)
CountStmts(fs) ==
    IF fs = <<>> THEN 0 ELSE Len(Head(fs).file.stmts) + CountStmts(Tail(fs))

\* -------------------------------------------------------------- rendering

Line(kind, text) == [kind |-> kind, text |-> text, nl |-> TRUE]

\* Features::cfg_gate_ln: nothing for an empty set, else one line requiring
\* every feature of the set.
CfgGateLn(features) ==
    IF features = {} THEN <<>>
    ELSE <<[kind |-> "cfg", all |-> features, nl |-> TRUE]>>

\* One Statement in its owning unit: its gate, then its declaration.
StmtFmt(stmt) ==
    CfgGateLn(RequiredFeatures(stmt)) \o <<[kind |-> "decl", stmt |-> stmt, nl |-> TRUE]>>

\* file.to_string(): the File's Statements in their stored order.
RECURSIVE FileFmtFrom(_, _)
FileFmtFrom(stmts, j) ==
    IF j > Len(stmts) THEN <<>> ELSE StmtFmt(stmts[j]) \o FileFmtFrom(stmts, j + 1)

FileToString(file) == FileFmtFrom(file.stmts, 1)

\* Library::fmt, lines 48-82: banner, doc line, lint suppressions.
Header(link_name) ==
    << Line("comment", "// This file has been automatically generated by objc2 header-translator."),
       Line("comment", "// DO NOT EDIT"),
       Line("blank", ""),
       Line("doc", link_name),
       Line("lint", "unused_imports"),
       Line("lint", "deprecated"),
       Line("lint", "non_snake_case"),
       Line("lint", "non_camel_case_types"),
       Line("lint", "non_upper_case_globals"),
       Line("lint", "missing_docs"),
       Line("lint", "clippy::too_many_arguments"),
       Line("lint", "clippy::type_complexity"),
       Line("lint", "clippy::upper_case_acronyms"),
       Line("lint", "clippy::identity_op"),
       Line("lint", "clippy::missing_safety_doc"),
       Line("blank", "") >>

LinkChunk(gate, name) ==
    [kind |-> "link", cfg_attr |-> gate, name |-> name, link_kind |-> "framework", nl |-> TRUE]

\* Library::fmt, lines 84-98: the link attribute, under cfg_attr(feature =
\* "apple") when cfg_apple_link is set, bare otherwise.
LinkDirectives(link_name, cfg_apple_link) ==
    IF cfg_apple_link
    THEN <<LinkChunk(Some("apple"), link_name)>>
    ELSE <<LinkChunk(None, link_name)>>

\* Library::fmt, lines 84-100: link attribute, empty extern block, blank.
LinkSection(link_name, cfg_apple_link) ==
    LinkDirectives(link_name, cfg_apple_link)
        \o <<Line("extern", "extern C {}"), Line("blank", "")>>

ModIdent(clean) == <<"_", "_">> \o clean

\* Library::fmt, lines 103-105: #[path = "{name}.rs"] and mod __{name};
\* for one key.
ModDecl(key) ==
    LET name == CleanFileName(key)
    IN  << [kind |-> "path", file |-> name \o <<".">> \o Rs, nl |-> TRUE],
           [kind |-> "mod", ident |-> ModIdent(name), nl |-> TRUE] >>

RECURSIVE ModDeclsFrom(_, _)
ModDeclsFrom(fs, i) ==
    IF i > Len(fs) THEN <<>> ELSE ModDecl(fs[i].name) \o ModDeclsFrom(fs, i + 1)

\* Library::fmt, lines 102-108: one declaration per key, then a blank.
ModSection(fs) == ModDeclsFrom(fs, 1) \o <<Line("blank", "")>>

\* The owner check left out.
AssertOwnerSkipped(item, file_name) == TRUE

\* Library::fmt, line 115: assert_eq!(item.file_name.as_ref(), Some(file_name)).
AssertOwner(item, file_name) == item.file_name = Some(file_name)

\* A re-export written without its gate.
ReexportGateNone(stmt) == CfgGateLn({})

\* Library::fmt, lines 112 and 117: the gate written before a re-export.
ReexportGate(stmt) == CfgGateLn(RequiredFeatures(stmt))

\* A visibility test that looks for the marker anywhere in the name
\* (str::contains).
VisibilityAnywhere(name) ==
    IF \E i \in 1..Len(name) : name[i] = "_" THEN "pub(crate)" ELSE "pub"

\* Library::fmt, lines 119-123.
Visibility(name) == IF StartsWith(name, "_") THEN "pub(crate)" ELSE "pub"

\* Library::fmt, lines 125-130: the re-export, written without a newline.
UseChunk(file_name, item) ==
    [kind |-> "use", vis |-> Visibility(item.name),
     module |-> ModIdent(CleanFileName(file_name)), item |-> item.name, nl |-> FALSE]

\* The (file_name, stmt) pairs in the order of the nested loops of lines
\* 110-111.
RECURSIVE FlattenStmts(_)
FlattenStmts(fs) ==
    IF fs = <<>> THEN <<>>
    ELSE [j \in 1..Len(Head(fs).file.stmts) |->
             [file_name |-> Head(fs).name, stmt |-> Head(fs).file.stmts[j]]]
         \o FlattenStmts(Tail(fs))

\* Library::fmt, lines 110-133, from the buffer `out`: a failed assertion
\* unwinds and leaves the rest unwritten.
RECURSIVE ReexportLoop(_, _)
ReexportLoop(pairs, out) ==
    IF pairs = <<>> THEN [panicked |-> FALSE, out |-> out]
    ELSE LET p == Head(pairs)
             item == ProvidedItem(p.stmt)
         IN  IF ~item.some THEN ReexportLoop(Tail(pairs), out)
             ELSE IF ~AssertOwner(item.val, p.file_name)
             THEN [panicked |-> TRUE, out |-> out]
             ELSE ReexportLoop(Tail(pairs),
                      out \o ReexportGate(p.stmt) \o <<UseChunk(p.file_name, item.val)>>)

\* A rendering that writes the re-exports before the module declarations.
LibraryFmtUsesFirst(fs, link_name, cfg_apple_link) ==
    LET uses == ReexportLoop(FlattenStmts(fs), <<>>)
    IN  [panicked |-> uses.panicked,
         out |-> Header(link_name) \o LinkSection(link_name, cfg_apple_link)
                     \o uses.out \o ModSection(fs)]

\* <Library as Display>::fmt, as self.to_string() sees it: the text, or a
\* panic with the buffer written so far.
LibraryFmt(fs, link_name, cfg_apple_link) ==
    ReexportLoop(FlattenStmts(fs),
        Header(link_name) \o LinkSection(link_name, cfg_apple_link) \o ModSection(fs))

\* ------------------------------------------------------------------ state

VARIABLES
    files,           \* Library.files, entries in ascending key order
    link_name,       \* Library.link_name
    cfg_apple_link,  \* Library.data.cfg_apple_link
    pc,              \* "build": the front end fills the map; "units": inside
                     \* Library::output; "mirror": a second Library is filled;
                     \* "done": output has returned or unwound
    idx,             \* position of output's for loop in files
    result,          \* what output returned
    storage,         \* the output directory: path -> content
    log,             \* every fs::write call of the run, in order
    filesB,          \* a second Library's files, for comparing two runs
    storageB,        \* the second Library's output directory
    sortedB          \* whether the second Library received its Files in
                     \* ascending key order

vars == <<files, link_name, cfg_apple_link, pc, idx, result, storage, log,
          filesB, storageB, sortedB>>

NoResult == [kind |-> "none", err |-> ""]
Ok == [kind |-> "Ok", err |-> ""]
Err(e) == [kind |-> "Err", err |-> e]
Panic == [kind |-> "panic", err |-> ""]

\* Content a path holds before the run: unrelated to anything rendered.
Stale(p) == <<[kind |-> "stale", path |-> p, nl |-> TRUE]>>

\* Library::new: no files; name and data as configured.  The output
\* directory holds a stale unit at every path, the case in which fs::write
\* has to truncate as well as write.
Init ==
    /\ files = <<>>
    /\ \E c \in ConfigPool :
           /\ link_name = c.link_name
           /\ cfg_apple_link = c.cfg_apple_link
    /\ pc = "build"
    /\ idx = 0
    /\ result = NoResult
    /\ storage = [p \in AllPaths |-> Stale(p)]
    /\ log = <<>>
    /\ filesB = <<>>
    /\ storageB = [p \in AllPaths |-> Stale(p)]
    /\ sortedB = TRUE

\* ---------------------------------------------------------------- front end

\* library.files.insert(k, File::default()) for a new header.
AddFile(k) ==
    /\ pc = "build"
    /\ Len(files) < MaxFiles
    /\ k \notin Keys(files)
    /\ files' = BTreeInsert(files, k, [stmts |-> <<>>])
    /\ UNCHANGED <<link_name, cfg_apple_link, pc, idx, result, storage, log,
                   filesB, storageB, sortedB>>

\* file.stmts.push(s) for the i-th File.
PushStmt(i, s) ==
    /\ pc = "build"
    /\ CountStmts(files) < MaxStmts
    /\ files' = [files EXCEPT ![i].file.stmts = Append(@, s)]
    /\ UNCHANGED <<link_name, cfg_apple_link, pc, idx, result, storage, log,
                   filesB, storageB, sortedB>>

\* ------------------------------------------------------------------ output

\* A write that appends to the file instead of truncating it.
FsWriteAppend(st, p, content) == [st EXCEPT ![p] = @ \o content]

\* fs::write succeeding: the file is created or truncated and holds content.
FsWrite(st, p, content) == [st EXCEPT ![p] = content]

\* fs::write failing: the file is untouched when it could not be opened,
\* truncated when the data could not be written.
FsWriteFailed(st, p, e) ==
    IF e = "StorageFull" THEN [st EXCEPT ![p] = <<>>] ELSE st

\* Lines 33-36 for one entry: the File's text goes to its unit's path.
WriteUnit(st, entry) == FsWrite(st, UnitPath(entry.name), FileToString(entry.file))

\* A unit write whose error is dropped, the loop going on.
UnitWriteErrIgnored(e) == [pc |-> "units", result |-> NoResult]

\* The `?` of line 36: the error leaves output at once, as it is.
UnitWriteErr(e) == [pc |-> "done", result |-> Err(e)]

\* The `?` of line 40.
ModWriteErr(e) == [pc |-> "done", result |-> Err(e)]

\* The caller enters Library::output.
StartOutput ==
    /\ pc = "build"
    /\ pc' = "units"
    /\ idx' = 1
    /\ UNCHANGED <<files, link_name, cfg_apple_link, result, storage, log,
                   filesB, storageB, sortedB>>

\* One iteration of the for loop of lines 32-37, its write succeeding.
WriteUnitOk ==
    /\ pc = "units"
    /\ idx <= Len(files)
    /\ LET p == UnitPath(files[idx].name)
       IN  /\ storage' = WriteUnit(storage, files[idx])
           /\ log' = Append(log, [what |-> "unit", path |-> p, ok |-> TRUE, err |-> ""])
    /\ idx' = idx + 1
    /\ UNCHANGED <<files, link_name, cfg_apple_link, pc, result, filesB, storageB, sortedB>>

\* One iteration of the for loop, its write failing with e.
WriteUnitErr(e) ==
    /\ pc = "units"
    /\ idx <= Len(files)
    /\ LET p == UnitPath(files[idx].name)
           r == UnitWriteErr(e)
       IN  /\ storage' = FsWriteFailed(storage, p, e)
           /\ log' = Append(log, [what |-> "unit", path |-> p, ok |-> FALSE, err |-> e])
           /\ pc' = r.pc
           /\ result' = r.result
           /\ idx' = IF r.pc = "done" THEN idx ELSE idx + 1
    /\ UNCHANGED <<files, link_name, cfg_apple_link, filesB, storageB, sortedB>>

\* Lines 40-42 when self.to_string() panics: nothing is written.
AggregatorPanic ==
    /\ pc = "units"
    /\ idx = Len(files) + 1
    /\ LibraryFmt(files, link_name, cfg_apple_link).panicked
    /\ pc' = "done"
    /\ result' = Panic
    /\ UNCHANGED <<files, link_name, cfg_apple_link, idx, storage, log,
                   filesB, storageB, sortedB>>

\* Lines 40-42, the write succeeding: output returns Ok(()).
WriteModOk ==
    /\ pc = "units"
    /\ idx = Len(files) + 1
    /\ LET text == LibraryFmt(files, link_name, cfg_apple_link)
       IN  /\ ~text.panicked
           /\ storage' = FsWrite(storage, ModRsPath, text.out)
    /\ log' = Append(log, [what |-> "aggregator", path |-> ModRsPath, ok |-> TRUE, err |-> ""])
    /\ pc' = "done"
    /\ result' = Ok
    /\ UNCHANGED <<files, link_name, cfg_apple_link, idx, filesB, storageB, sortedB>>

\* Lines 40-42, the write failing with e.
WriteModErr(e) ==
    /\ pc = "units"
    /\ idx = Len(files) + 1
    /\ ~LibraryFmt(files, link_name, cfg_apple_link).panicked
    /\ storage' = FsWriteFailed(storage, ModRsPath, e)
    /\ log' = Append(log, [what |-> "aggregator", path |-> ModRsPath, ok |-> FALSE, err |-> e])
    /\ pc' = ModWriteErr(e).pc
    /\ result' = ModWriteErr(e).result
    /\ UNCHANGED <<files, link_name, cfg_apple_link, idx, filesB, storageB, sortedB>>

Next ==
    \/ \E k \in FileNamePool : AddFile(k)
    \/ \E i \in 1..Len(files) : \E s \in StmtPool(files[i].name) : PushStmt(i, s)
    \/ StartOutput
    \/ WriteUnitOk
    \/ \E e \in IoErrorPool : WriteUnitErr(e)
    \/ AggregatorPanic
    \/ WriteModOk
    \/ \E e \in IoErrorPool : WriteModErr(e)

Spec == Init /\ [][Next]_vars

\* ------------------------------------------------------------ two Libraries

\* The permutations of 1..n.
Perms(n) == { f \in [1..n -> 1..n] : \A i, j \in 1..n : f[i] = f[j] => i = j }

RECURSIVE InsertAll(_, _, _, _)
InsertAll(src, order, j, acc) ==
    IF j > Len(src) THEN acc
    ELSE InsertAll(src, order, j + 1,
                   BTreeInsert(acc, src[order[j]].name, src[order[j]].file))

RECURSIVE WriteUnitsFrom(_, _, _)
WriteUnitsFrom(fs, i, st) ==
    IF i > Len(fs) THEN st ELSE WriteUnitsFrom(fs, i + 1, WriteUnit(st, fs[i]))

\* Library::output with every write succeeding: the directory it leaves.
OutputOk(fs, ln, cfg, st) ==
    FsWrite(WriteUnitsFrom(fs, 1, st), ModRsPath, LibraryFmt(fs, ln, cfg).out)

\* A second Library receives the same Files, inserted in the order sigma.
Mirror(sigma) ==
    /\ pc = "build"
    /\ pc' = "mirror"
    /\ filesB' = InsertAll(files, sigma, 1, <<>>)
    /\ sortedB' = \A j \in 1..Len(files) : sigma[j] = j
    /\ UNCHANGED <<files, link_name, cfg_apple_link, idx, result, storage, log,
                   storageB>>

\* The front end hands the second Library the Statements of its i-th File
\* in another order.
ShuffleB(i, pi) ==
    /\ pc = "mirror"
    /\ filesB' = [filesB EXCEPT ![i].file.stmts = [j \in 1..Len(@) |-> @[pi[j]]]]
    /\ filesB' # filesB
    /\ UNCHANGED <<files, link_name, cfg_apple_link, pc, idx, result, storage, log,
                   storageB, sortedB>>

\* Both Libraries are written out, each into its own directory.
RunBoth ==
    /\ pc = "mirror"
    /\ ~LibraryFmt(files, link_name, cfg_apple_link).panicked
    /\ ~LibraryFmt(filesB, link_name, cfg_apple_link).panicked
    /\ storage' = OutputOk(files, link_name, cfg_apple_link, storage)
    /\ storageB' = OutputOk(filesB, link_name, cfg_apple_link, storageB)
    /\ pc' = "done"
    /\ result' = Ok
    /\ UNCHANGED <<files, link_name, cfg_apple_link, idx, log, filesB, sortedB>>

NextDet ==
    \/ \E k \in FileNamePool : AddFile(k)
    \/ \E i \in 1..Len(files) : \E s \in ValidStmtPool(files[i].name) : PushStmt(i, s)
    \/ \E sigma \in Perms(Len(files)) : Mirror(sigma)
    \/ \E i \in 1..Len(filesB) : \E pi \in Perms(Len(filesB[i].file.stmts)) : ShuffleB(i, pi)
    \/ RunBoth

SpecDet == Init /\ [][NextDet]_vars

\* ----------------------------------------------------------------- claims

\* output has returned Ok(()).
Succeeded == pc = "done" /\ result = Ok

\* The positions of a text's chunks of one kind, and the n-th of them.
Idx(text, kind) == { i \in DOMAIN text : text[i].kind = kind }

NthIdx(text, kind, n) ==
    CHOOSE i \in Idx(text, kind) : Cardinality({ j \in Idx(text, kind) : j < i }) = n - 1

IsReexportChunk(c) == c.kind \in { "cfg", "use" }

IsMarked(c) == c.kind # "blank"

\* The re-export part of an aggregator: its gates and re-exports, in order.
Reexports(text) == SelectSeq(text, IsReexportChunk)

\* The gate written immediately before position i of a text, if any.
GateBefore(text, i) ==
    IF i > 1 /\ text[i - 1].kind = "cfg" THEN text[i - 1].all ELSE {}

\* The positions (file, statement) of the Statements that export an item,
\* and the rank of one of them in file-then-declaration order.
Exporting ==
    { q \in (1..Len(files)) \X (1..MaxStmts) :
        /\ q[2] <= Len(files[q[1]].file.stmts)
        /\ files[q[1]].file.stmts[q[2]].item.some }

ExportRank(q) ==
    1 + Cardinality({ r \in Exporting : r[1] < q[1] \/ (r[1] = q[1] /\ r[2] < q[2]) })

\* C1: the linkage section holds two gated link directives, with different
\* gates, when cfg_apple_link is set and exactly one ungated directive
\* otherwise; every directive names link_name, and exactly one empty extern
\* scope follows the last directive.
C1_LinkageSection ==
    Succeeded =>
        LET agg == storage[ModRsPath]
            links == Idx(agg, "link")
        IN  /\ cfg_apple_link =>
                 /\ Cardinality(links) = 2
                 /\ \A i \in links : agg[i].cfg_attr.some
                 /\ \A i, j \in links : i # j => agg[i].cfg_attr # agg[j].cfg_attr
            /\ ~cfg_apple_link =>
                 /\ Cardinality(links) = 1
                 /\ \A i \in links : ~agg[i].cfg_attr.some
            /\ \A i \in links : agg[i].name = link_name
            /\ Cardinality(Idx(agg, "extern")) = 1
            /\ \A e \in Idx(agg, "extern") : e > 1 /\ agg[e - 1].kind = "link"

\* C6: a re-export is restricted (pub(crate)) exactly when the item's name
\* begins with '_', and public otherwise, whatever its file, gate or the
\* linkage style.
C6_VisibilityByName ==
    Succeeded =>
        LET agg == storage[ModRsPath]
        IN  \A i \in Idx(agg, "use") :
                /\ agg[i].vis \in { "pub", "pub(crate)" }
                /\ agg[i].vis = "pub(crate)" <=> agg[i].item[1] = "_"

\* C6 witness: one aggregator re-exports a name that begins with '_', and
\* one that holds '_' elsewhere.
C6_Witness ==
    /\ Succeeded
    /\ \E i, j \in Idx(storage[ModRsPath], "use") :
           /\ storage[ModRsPath][i].item = <<"_", "F">>
           /\ storage[ModRsPath][j].item = <<"F", "_">>

\* The section a chunk of the aggregator belongs to, by its kind.
SectionOf(kind) ==
    CASE kind \in { "comment", "doc", "lint" } -> 1
      [] kind \in { "link", "extern" } -> 2
      [] kind \in { "path", "mod" } -> 3
      [] kind \in { "cfg", "use" } -> 4

\* C10: the aggregator holds, in this order, banner and lints, the link
\* directive and extern scope, the module declarations in ascending key
\* order, and the re-exports; the re-exports follow file-then-declaration
\* order, each directly after its own gate, if it has one.
C10_AggregatorOrder ==
    Succeeded =>
        LET agg == storage[ModRsPath]
            marked == SelectSeq(agg, IsMarked)
            body == Reexports(agg)
        IN  /\ \A i \in 1..(Len(marked) - 1) :
                   SectionOf(marked[i].kind) <= SectionOf(marked[i + 1].kind)
            /\ agg[1].kind = "comment"
            /\ \A l \in Idx(agg, "lint") : \A e \in Idx(agg, "link") : l < e
            /\ \A l \in Idx(agg, "link") : \A e \in Idx(agg, "extern") : l < e
            /\ Cardinality(Idx(agg, "mod")) = Len(files)
            /\ \A m \in 1..Len(files) :
                   /\ agg[NthIdx(agg, "mod", m)].ident = ModIdent(CleanFileName(files[m].name))
                   /\ m < Len(files) => StrLess(files[m].name, files[m + 1].name)
            /\ Cardinality(Idx(body, "use")) = Cardinality(Exporting)
            /\ \A q \in Exporting :
                   LET u == NthIdx(body, "use", ExportRank(q))
                       stmt == files[q[1]].file.stmts[q[2]]
                   IN  /\ body[u].item = stmt.item.val.name
                       /\ body[u].module = ModIdent(CleanFileName(files[q[1]].name))
                       /\ GateBefore(body, u) = stmt.features
            /\ \A c \in Idx(body, "cfg") : c < Len(body) /\ body[c + 1].kind = "use"

\* C10 witness: two Files whose keys sort differently raw and sanitized,
\* both re-exporting, one re-export gated.
C10_Witness ==
    /\ Succeeded
    /\ Len(files) = 2
    /\ files[1].name = <<"a", "+", "b">>
    /\ files[2].name = <<"a", ".", "b">>
    /\ Cardinality(Idx(storage[ModRsPath], "use")) = 2
    /\ Cardinality(Idx(storage[ModRsPath], "cfg")) = 1
    /\ cfg_apple_link

\* C3: for every Statement that exports an item, the gate before its
\* re-export in the aggregator equals the gate before its declaration in
\* its File's unit.
C3_GateConsistency ==
    Succeeded =>
        LET body == Reexports(storage[ModRsPath])
        IN  \A q \in Exporting :
                LET unit == FileToString(files[q[1]].file)
                IN  GateBefore(body, NthIdx(body, "use", ExportRank(q)))
                        = GateBefore(unit, NthIdx(unit, "decl", q[2]))

\* C3 witness: a run whose Library exports one gated and one ungated item.
C3_Witness ==
    /\ Succeeded
    /\ \E q, r \in Exporting :
           /\ files[q[1]].file.stmts[q[2]].features = {}
           /\ files[r[1]].file.stmts[r[2]].features = { "x", "y" }

\* C2: after a successful run every key has its own module declaration,
\* whose identifier and path attribute use the key's sanitized identity,
\* and its own unit on storage, whose file name is the one the path
\* attribute names; every re-export names a declared module.
C2_Completeness ==
    Succeeded =>
        LET agg == storage[ModRsPath]
        IN  /\ Cardinality(Idx(agg, "mod")) = Len(files)
            /\ \A m \in 1..Len(files) :
                   LET d == NthIdx(agg, "mod", m)
                       clean == CleanFileName(files[m].name)
                   IN  /\ agg[d].ident = <<"_", "_">> \o clean
                       /\ d > 1 /\ agg[d - 1].kind = "path"
                       /\ agg[d - 1].file = clean \o <<".", "r", "s">>
                       /\ log[m].what = "unit" /\ log[m].ok
                       /\ log[m].path = agg[d - 1].file
                       /\ storage[log[m].path] # Stale(log[m].path)
            /\ \A u \in Idx(agg, "use") :
                   \E d \in Idx(agg, "mod") : agg[d].ident = agg[u].module

\* The stem a write's target is expected to have: for the unit of key k, k
\* with every '+' replaced by '_' and cut before its last '.', unless that
\* '.' leads the name; for the aggregator, "mod".
ExpectedStem(k) ==
    LET clean == [i \in 1..Len(k) |-> IF k[i] = "+" THEN "_" ELSE k[i]]
        dots == { i \in 2..Len(k) : k[i] = "." }
    IN  IF dots = {} THEN clean
        ELSE SubSeq(clean, 1, (CHOOSE i \in dots : \A j \in dots : j <= i) - 1)

\* The stem expected of the i-th write of the run.
WriteStem(i) ==
    IF log[i].what = "aggregator" THEN <<"m", "o", "d">> ELSE ExpectedStem(files[i].name)

\* C4 as claimed: no two writes of one run target the same path.
C4_TargetsDistinct ==
    \A i, j \in DOMAIN log : i # j => log[i].path # log[j].path

\* C4 as amended: two writes of one run target the same path exactly when
\* the stems of their targets agree.
C4_TargetsDistinctByStem ==
    \A i, j \in DOMAIN log :
        i # j => (log[i].path = log[j].path <=> WriteStem(i) = WriteStem(j))

\* C4 witness: a finished run in which two writes shared a target and two
\* others did not.
C4_Witness ==
    /\ Succeeded
    /\ \E i, j \in DOMAIN log : i # j /\ log[i].path = log[j].path
    /\ \E i, j \in DOMAIN log : i # j /\ log[i].path # log[j].path

\* C7 as claimed: after a successful run each File's target path holds that
\* File's rendering and the aggregator's path holds the aggregator.
C7_FreshContent ==
    Succeeded =>
        /\ \A m \in 1..Len(files) :
               storage[UnitPath(files[m].name)] = FileToString(files[m].file)
        /\ storage[ModRsPath] = LibraryFmt(files, link_name, cfg_apple_link).out

\* C7 as amended: after a successful run every written path holds exactly
\* the rendering of the last write that targeted it, so a File's target
\* holds that File's rendering unless a later write of the run (a later
\* File with the same target, or the aggregator) targeted it too; the
\* aggregator's path holds the aggregator; nothing stale is left at a
\* written path.
C7_FreshContentOfLastWrite ==
    Succeeded =>
        /\ \A m \in 1..Len(files) :
               /\ (\A j \in (m + 1)..Len(log) : log[j].path # log[m].path)
                      => storage[log[m].path] = FileToString(files[m].file)
               /\ \A c \in DOMAIN storage[log[m].path] :
                      storage[log[m].path][c].kind # "stale"
        /\ storage[ModRsPath] = LibraryFmt(files, link_name, cfg_apple_link).out

\* C7 witness: a successful run over two Files with different texts, one of
\* them the last writer of its target, the other overwritten.
C7_Witness ==
    /\ Succeeded
    /\ Len(files) = 2
    /\ FileToString(files[1].file) # FileToString(files[2].file)
    /\ log[1].path = log[2].path
    /\ storage[log[2].path] = FileToString(files[2].file)

\* A Statement whose exported item names no file, or another file than the
\* one it is stored under.
Offending(q) ==
    files[q[1]].file.stmts[q[2]].item.val.file_name # Some(files[q[1]].name)

\* C8: when some exported item's file_name is absent or differs from its
\* File's key, output never returns Ok, the aggregator is never written,
\* and rendering stops at the first such Statement: its buffer holds the
\* re-exports of the Statements before it and no other, and a run whose
\* writes all succeeded ends by that panic.
C8_MismatchAborts ==
    (\E q \in Exporting : Offending(q)) =>
        /\ result # Ok
        /\ \A i \in DOMAIN log : log[i].what # "aggregator"
        /\ pc = "done" =>
               LET text == LibraryFmt(files, link_name, cfg_apple_link)
                   first == CHOOSE q \in Exporting :
                                Offending(q) /\ \A r \in Exporting :
                                    Offending(r) => ExportRank(q) <= ExportRank(r)
               IN  /\ \A c \in DOMAIN storage[ModRsPath] :
                          storage[ModRsPath][c].kind \notin { "comment", "link", "mod", "use" }
                   /\ text.panicked
                   /\ Cardinality(Idx(text.out, "use")) = ExportRank(first) - 1
                   /\ (\A i \in DOMAIN log : log[i].ok) => result = Panic

\* C8 witness: a run that unwound at an offending Statement after the
\* re-export of an earlier Statement had been rendered.
C8_Witness ==
    /\ pc = "done"
    /\ result = Panic
    /\ \E q \in Exporting : Offending(q)
    /\ Idx(LibraryFmt(files, link_name, cfg_apple_link).out, "use") # {}
    /\ Len(log) = 2

\* C9: a failed write is the last write of the run and output returns its
\* error; the aggregator is written only after every unit was written
\* successfully; output returns Ok only if every write succeeded.
C9_FailFast ==
    /\ \A i \in DOMAIN log :
           ~log[i].ok => i = Len(log) /\ pc = "done" /\ result = Err(log[i].err)
    /\ result.kind = "Err" =>
           /\ log # <<>>
           /\ ~log[Len(log)].ok
           /\ result.err = log[Len(log)].err
    /\ \A i \in DOMAIN log :
           log[i].what = "aggregator" =>
               /\ i = Len(files) + 1
               /\ \A j \in 1..(i - 1) : log[j].ok /\ log[j].what = "unit"
    /\ result = Ok => Len(log) = Len(files) + 1 /\ \A i \in DOMAIN log : log[i].ok
    /\ Len(log) <= Len(files) + 1

\* C9 witness: the second of two unit writes failed, and the aggregator was
\* not attempted.
C9_Witness ==
    /\ pc = "done"
    /\ Len(files) = 2
    /\ Len(log) = 2
    /\ log[1].ok
    /\ result = Err("StorageFull")

\* The Statements of a File, as a bag: how often s occurs among them.
Occurrences(stmts, s) == Cardinality({ j \in 1..Len(stmts) : stmts[j] = s })

\* The two Libraries hold the same keys and, under each key, the same
\* Statements, in whatever order.
SameFilesSameStatements ==
    /\ Keys(files) = Keys(filesB)
    /\ \A i \in 1..Len(files) : \A j \in 1..Len(filesB) :
           files[i].name = filesB[j].name =>
               \A s \in StmtPool(files[i].name) :
                   Occurrences(files[i].file.stmts, s) = Occurrences(filesB[j].file.stmts, s)

\* The two Libraries hold the same keys and, under each key, the same
\* sequence of Statements.
SameFiles ==
    { files[i] : i \in 1..Len(files) } = { filesB[j] : j \in 1..Len(filesB) }

\* C5 as claimed: two runs over the same Files and Statements leave
\* identical directories, whatever the insertion order of the Files and
\* whatever the order of the Statements received.
C5_Deterministic ==
    (pc = "done" /\ SameFilesSameStatements) => storage = storageB

\* C5 as amended: two runs over the same Files, each with its Statements in
\* the same order, leave identical directories, whatever the insertion
\* order of the Files.
C5_DeterministicUpToInsertion ==
    (pc = "done" /\ SameFiles) => storage = storageB

\* C5 witness: the second Library received its two Files in descending key
\* order, and both Libraries were written out.
C5_Witness ==
    /\ pc = "done"
    /\ SameFiles
    /\ Len(files) = 2
    /\ ~sortedB
    /\ CountStmts(files) = MaxStmts

====
